---- MODULE Spec2Model ----
(***************************************************************************)
(* Model of src/jira3.py: a FastMCP server exposing five Jira tools        *)
(* (get_epic_name_field_id, get_project_info, download_attachments,        *)
(* upload_attachment, list_tmp_files) and its entry point main().          *)
(*                                                                         *)
(* Python strings are sequences of one-character strings, so that          *)
(* str.startswith, f-string formatting and os.path.join are computed as    *)
(* the interpreter computes them.  The HTTP layer is scripted: every call  *)
(* of requests.get / requests.post gets an outcome chosen by the           *)
(* environment.  The filesystem is the set of directories and the map of   *)
(* regular files, keyed by resolved absolute path (a sequence of           *)
(* components).                                                            *)
(***************************************************************************)
EXTENDS Naturals, Sequences, FiniteSets, TLC

VARIABLES env, transport, served, fsys, op, args, http, requests, writes, logs, exc, result

vars == <<env, transport, served, fsys, op, args, http, requests, writes, logs, exc, result>>

----------------------------------------------------------------------------
(* Bounds *)

MaxAttachments == 2

----------------------------------------------------------------------------
(* Python values *)

\* The value None: the only value that is not a string.
None == <<"<None>">>

\* bool(x) for x a string or None: None and "" are falsy.
Truthy(x) == x # None /\ x # <<>>

\* str(x) as used by f-string interpolation.
Str(x) == IF x = None THEN <<"N", "o", "n", "e">> ELSE x

\* s.startswith(prefix)
StartsWith(s, prefix) ==
    /\ Len(prefix) <= Len(s)
    /\ SubSeq(s, 1, Len(prefix)) = prefix

\* dict.get(key, default)
Get(d, key, default) == IF key \in DOMAIN d THEN d[key] ELSE default

----------------------------------------------------------------------------
(* Paths and the filesystem *)

TMP == <<"t", "m", "p">>

\* The working directory of the process, as resolved components.
Cwd == << <<"w">> >>

\* posixpath.join(a, b)
Join(a, b) ==
    IF b # <<>> /\ b[1] = "/" THEN b
    ELSE IF a = <<>> \/ a[Len(a)] = "/" THEN a \o b
    ELSE a \o <<"/">> \o b

RECURSIVE SplitFrom(_, _, _)
\* The components of path p from position i on, cur being the component
\* read so far ("a//b" has an empty component).
SplitFrom(p, i, cur) ==
    IF i > Len(p) THEN <<cur>>
    ELSE IF p[i] = "/" THEN <<cur>> \o SplitFrom(p, i + 1, <<>>)
    ELSE SplitFrom(p, i + 1, Append(cur, p[i]))

Components(p) == SplitFrom(p, 1, <<>>)

IsAbs(p) == p # <<>> /\ p[1] = "/"

Parent(d) == IF d = <<>> THEN <<>> ELSE SubSeq(d, 1, Len(d) - 1)

RECURSIVE Walk(_, _, _, _)
\* Kernel path resolution: from directory cur, follow components cs[i..].
\* Every component but the last must name an existing directory.
\* kind: "dir" (resolves to a directory), "file" (an existing regular
\* file), "free" (no entry, parent exists), "enoent", "enotdir".
Walk(f, cur, cs, i) ==
    LET c == cs[i]
        stay == c = <<>> \/ c = <<".">>
        nxt == IF stay THEN cur
               ELSE IF c = <<".", ".">> THEN Parent(cur)
               ELSE Append(cur, c)
    IN  IF nxt \in f.dirs
        THEN IF i = Len(cs) THEN [kind |-> "dir", path |-> nxt]
             ELSE Walk(f, nxt, cs, i + 1)
        ELSE IF nxt \in DOMAIN f.files
        THEN IF i = Len(cs) THEN [kind |-> "file", path |-> nxt]
             ELSE [kind |-> "enotdir", path |-> nxt]
        ELSE IF i = Len(cs) THEN [kind |-> "free", path |-> nxt]
             ELSE [kind |-> "enoent", path |-> nxt]

Resolve(f, p) ==
    IF p = <<>> THEN [kind |-> "enoent", path |-> <<>>]
    ELSE Walk(f, IF IsAbs(p) THEN <<>> ELSE Cwd, Components(p), 1)

\* os.path.exists(p)
Exists(f, p) == Resolve(f, p).kind \in {"dir", "file"}

\* os.path.isfile(p)
IsFile(f, p) == Resolve(f, p).kind = "file"

\* The scratch directory made afresh: removed with its files, then created.
MakedirsFresh(f) ==
    [dirs |-> f.dirs \cup {Append(Cwd, TMP)},
     files |-> [q \in {r \in DOMAIN f.files : Parent(r) # Append(Cwd, TMP)} |-> f.files[q]]]

\* os.makedirs("tmp", exist_ok=True)
Makedirs(f) == [f EXCEPT !.dirs = @ \cup {Append(Cwd, TMP)}]

\* The write of one file, the path being resolved: create or truncate.
WriteFile(files, path, bytes) ==
    [q \in DOMAIN files \cup {path} |-> IF q = path THEN bytes ELSE files[q]]

\* with open(p, "wb") as f: f.write(bytes)
\* err is "" or the OSError subclass that open raises.
OpenWrite(f, p, bytes) ==
    LET r == Resolve(f, p)
    IN  IF r.kind \in {"file", "free"}
        THEN [err |-> "", path |-> r.path,
              fsys |-> [f EXCEPT !.files = WriteFile(f.files, r.path, bytes)]]
        ELSE [err |-> IF r.kind = "dir" THEN "IsADirectoryError"
                      ELSE IF r.kind = "enotdir" THEN "NotADirectoryError"
                      ELSE "FileNotFoundError",
              path |-> r.path, fsys |-> f]

\* open(p, "rb")
OpenRead(f, p) ==
    LET r == Resolve(f, p)
    IN  IF r.kind = "file" THEN ""
        ELSE IF r.kind = "dir" THEN "IsADirectoryError"
        ELSE IF r.kind = "enotdir" THEN "NotADirectoryError"
        ELSE "FileNotFoundError"

\* os.listdir("tmp") filtered by os.path.isfile
ListFiles(f) ==
    {p[Len(p)] : p \in {q \in DOMAIN f.files : Parent(q) = Append(Cwd, TMP)}}

\* The resolved path lies inside the scratch directory.
InScratch(path) ==
    /\ Len(path) > Len(Cwd) + 1
    /\ SubSeq(path, 1, Len(Cwd) + 1) = Append(Cwd, TMP)

\* The regular files of the scratch directory, with their contents.
ScratchFiles(f) == {p \in DOMAIN f.files : InScratch(p)}

----------------------------------------------------------------------------
(* Configuration read from the process environment at import *)

JiraUrls == {None, <<"h", ":", "j">>}
Usernames == {None, <<"u">>}
ApiTokens == {None, <<"k">>}
ProjectKeys == {None, <<"P">>}
IssueKeys == {None, <<"Q", "-", "1">>}

JIRA_URL == env.JIRA_URL
JIRA_USERNAME == env.JIRA_USERNAME
JIRA_API_TOKEN == env.JIRA_API_TOKEN
PROJECT_KEY == env.PROJECT_KEY
ISSUE_KEY == env.ISSUE_KEY

\* The tools registered on the FastMCP instance by the @mcp.tool() decorators.
RegisteredTools ==
    {"get_epic_name_field_id", "get_project_info", "download_attachments",
     "upload_attachment", "list_tmp_files"}

----------------------------------------------------------------------------
(* The HTTP layer *)

\* What the remote end does with one request.
Outcomes == {"ok", "http_error", "conn_error"}
Failures == {"http_error", "conn_error"}

\* requests refuses a URL without a scheme before anything is sent.
HasScheme(base) == \E i \in 1..Len(base) : base[i] = ":"

\* The outcome of requests.get/post on url when the remote end is scripted
\* to answer with `scripted`.
Send(url, scripted) == IF HasScheme(url.base) THEN scripted ELSE "invalid_url"

\* The exception raised by requests.get/post followed by raise_for_status(),
\* "" when none is.
RaisedBy(outcome) ==
    CASE outcome = "ok" -> ""
      [] outcome = "http_error" -> "HTTPError"
      [] outcome = "conn_error" -> "ConnectionError"
      [] outcome = "invalid_url" -> "MissingSchema"

\* except requests.RequestException: the classes the handlers catch.
CaughtOnlyHTTPError(e) == e = "HTTPError"

Caught(e) == e \in {"HTTPError", "ConnectionError", "MissingSchema"}

\* The Jira endpoint f"{JIRA_URL}<path>" with `arg` interpolated.
JiraEndpoint(path, arg) == [base |-> Str(JIRA_URL), path |-> path, arg |-> arg]

\* auth = (JIRA_USERNAME, JIRA_API_TOKEN)
Auth == <<JIRA_USERNAME, JIRA_API_TOKEN>>

Request(method, url, outcome) ==
    [method |-> method, url |-> url, auth |-> Auth, outcome |-> outcome]

\* The URLs the "content" field of an attachment may hold, and the bytes
\* served there.
ContentUrls ==
    {[base |-> <<"h", ":", "j">>, path |-> "/attachment/content/{}", arg |-> <<"1">>],
     [base |-> <<"h", ":", "x">>, path |-> "/attachment/content/{}", arg |-> <<"2">>]}

Body(url) == url.arg

FileNames ==
    {<<"a">>, <<".", ".", "/", "a">>, <<"/", "a">>, <<"b", "/", "a">>}

Attachment == [content : ContentUrls, filename : FileNames]

AttachmentLists == UNION {[1..n -> Attachment] : n \in 0..MaxAttachments}

\* Payloads of GET /rest/api/3/field
EpicName == <<"E">>
FieldLists ==
    {<< >>,
     << [name |-> <<"S">>, id |-> <<"1">>] >>,
     << [name |-> <<"S">>, id |-> <<"1">>], [name |-> EpicName, id |-> <<"2">>] >>,
     << [name |-> EpicName, id |-> <<"2">>], [name |-> EpicName, id |-> <<"3">>] >>,
     << [name |-> EpicName] >>}

\* Payloads of GET /rest/api/3/project/{key}
Projects ==
    {[name |-> <<"n">>, id |-> <<"7">>, projectTypeKey |-> <<"s">>, description |-> <<"d">>],
     [name |-> <<"n">>, id |-> <<"7">>, projectTypeKey |-> <<"s">>],
     [id |-> <<"7">>]}

----------------------------------------------------------------------------
(* Outcome of one invocation *)

NoResult == [none |-> TRUE]

\* The script of the HTTP layer for one call: the answer to the first
\* request and the JSON it carries; for a download the attachments of the
\* issue and the content fetch that fails (0: none).
NoHttp ==
    [first |-> "ok", payload |-> << >>, attachments |-> << >>,
     failAt |-> 0, failKind |-> "http_error"]

Log(level, site) == [level |-> level, site |-> site]

\* A call that ended: the filesystem it leaves, the requests it issued, the
\* files it wrote, its log lines, the exception that escaped ("" if none)
\* and the value returned.
Ended(f, reqs, ws, lg, e, r) ==
    [fsys |-> f, requests |-> reqs, writes |-> ws, logs |-> lg, exc |-> e, result |-> r]

\* An exception e raised inside the try block of a handler whose except
\* clause logs at `site`.
Except(f, reqs, ws, lg, e, site) ==
    IF Caught(e)
    THEN Ended(f, reqs, ws, Append(lg, Log("error", site)), "", NoResult)
    ELSE Ended(f, reqs, ws, lg, e, NoResult)

----------------------------------------------------------------------------
(* The handlers *)

\* The issue key a handler works on: the argument, or ISSUE_KEY when the
\* argument is falsy.
EffectiveKey(issue_key) == IF Truthy(issue_key) THEN issue_key ELSE ISSUE_KEY

\* The log lines of the "use environment issue key" block.
KeyLogs(issue_key) ==
    IF Truthy(issue_key) THEN << >>
    ELSE (IF Truthy(ISSUE_KEY) THEN << >> ELSE << Log("error", "no_issue_key") >>)
         \o << Log("info", "using_env_issue_key") >>

\* issue_key.startswith(f"{PROJECT_KEY}-")
BelongsToProject(key) == StartsWith(key, Str(PROJECT_KEY) \o <<"-">>)

\* The log line of the "validate that issue belongs to the configured
\* project" block.
ProjectLogs(key) ==
    IF BelongsToProject(key) THEN << >> ELSE << Log("warning", "foreign_issue") >>

RECURSIVE FirstEpic(_, _)
\* The index of the first field named "Epic Name" from i on, 0 if none.
FirstEpic(fields, i) ==
    IF i > Len(fields) THEN 0
    ELSE IF Get(fields[i], "name", None) = EpicName THEN i
    ELSE FirstEpic(fields, i + 1)

get_epic_name_field_id(f, scripted, fields) ==
    LET url == JiraEndpoint("/rest/api/3/field", << >>)
        out == Send(url, scripted)
        reqs == << Request("GET", url, out) >>
        i == FirstEpic(fields, 1)
    IN  IF RaisedBy(out) # ""
        THEN Except(f, reqs, << >>, << >>, RaisedBy(out), "epic_name_field")
        ELSE IF i = 0
        THEN Ended(f, reqs, << >>, << >>, "", [value |-> <<"customfield_10011">>])
        ELSE IF "id" \in DOMAIN fields[i]
        THEN Ended(f, reqs, << >>, << >>, "", [value |-> fields[i].id])
        ELSE Except(f, reqs, << >>, << >>, "KeyError", "epic_name_field")

\* get_project_info with the request sent again, up to three times in all,
\* while it fails.
get_project_info_retry(f, scripted, project) ==
    LET url == JiraEndpoint("/rest/api/3/project/{}", Str(PROJECT_KEY))
        out == Send(url, scripted)
        req == Request("GET", url, out)
    IN  IF RaisedBy(out) # ""
        THEN Except(f, << req, req, req >>, << >>, << >>, RaisedBy(out), "project_info")
        ELSE Ended(f, << req >>, << >>, << >>, "", [project_key |-> PROJECT_KEY])

get_project_info(f, scripted, project) ==
    LET url == JiraEndpoint("/rest/api/3/project/{}", Str(PROJECT_KEY))
        out == Send(url, scripted)
        reqs == << Request("GET", url, out) >>
    IN  IF RaisedBy(out) # ""
        THEN Except(f, reqs, << >>, << >>, RaisedBy(out), "project_info")
        ELSE Ended(f, reqs, << >>, << >>, "",
                   [project_key |-> PROJECT_KEY,
                    project_name |-> Get(project, "name", None),
                    project_id |-> Get(project, "id", None),
                    project_type |-> Get(project, "projectTypeKey", None),
                    description |-> Get(project, "description",
                                        <<"No description available">>)])

RECURSIVE DownloadLoop(_, _, _, _, _)
\* for attachment in attachments: fetch the content, write it under tmp,
\* record the path.  st is the state of the call before attachment i;
\* st.err is the exception that ended the loop, "" if it ran to its end.
DownloadLoop(st, attachments, i, failAt, failKind) ==
    IF i > Len(attachments) THEN st
    ELSE
      LET file_url == attachments[i].content
          file_name == attachments[i].filename
          out == Send(file_url, IF i = failAt THEN failKind ELSE "ok")
          reqs == Append(st.requests, Request("GET", file_url, out))
          file_path == Join(TMP, file_name)
          w == OpenWrite(st.fsys, file_path, Body(file_url))
      IN  IF RaisedBy(out) # ""
          THEN [st EXCEPT !.requests = reqs, !.err = RaisedBy(out)]
          ELSE IF w.err # ""
          THEN [st EXCEPT !.requests = reqs, !.err = w.err]
          ELSE DownloadLoop(
                 [fsys |-> w.fsys,
                  requests |-> reqs,
                  writes |-> Append(st.writes, w.path),
                  saved |-> Append(st.saved, file_path),
                  logs |-> Append(st.logs, Log("debug", "downloaded")),
                  err |-> ""],
                 attachments, i + 1, failAt, failKind)

download_attachments(f, issue_key, h) ==
    LET key == EffectiveKey(issue_key)
        lg0 == KeyLogs(issue_key)
    IN  IF key = None
        THEN Ended(f, << >>, << >>, lg0, "AttributeError", NoResult)
        ELSE
          LET lg1 == lg0 \o ProjectLogs(key)
              url == JiraEndpoint("/rest/api/3/issue/{}", key)
              out == Send(url, h.first)
              reqs == << Request("GET", url, out) >>
              f1 == Makedirs(f)
              st == DownloadLoop(
                      [fsys |-> f1, requests |-> reqs, writes |-> << >>,
                       saved |-> << >>, logs |-> lg1, err |-> ""],
                      h.attachments, 1, h.failAt, h.failKind)
          IN  IF RaisedBy(out) # ""
              THEN Except(f, reqs, << >>, lg1, RaisedBy(out), "download")
              ELSE IF h.attachments = << >>
              THEN Ended(f1, reqs, << >>, Append(lg1, Log("info", "no_attachments")), "",
                         [downloaded_files |-> << >>,
                          message |-> [text |-> "No attachments found", issue |-> key]])
              ELSE IF st.err # ""
              THEN Except(st.fsys, st.requests, st.writes, st.logs, st.err, "download")
              ELSE Ended(st.fsys, st.requests, st.writes, st.logs, "",
                         [downloaded_files |-> st.saved,
                          message |-> [text |-> "Successfully downloaded",
                                       n |-> Len(st.saved), issue |-> key],
                          issue_key |-> key,
                          project_key |-> PROJECT_KEY])

upload_attachment(f, filename, issue_key, scripted) ==
    LET key == EffectiveKey(issue_key)
        lg0 == KeyLogs(issue_key)
    IN  IF key = None
        THEN Ended(f, << >>, << >>, lg0, "AttributeError", NoResult)
        ELSE
          LET lg1 == lg0 \o ProjectLogs(key)
              url == JiraEndpoint("/rest/api/3/issue/{}/attachments", key)
              file_path == Join(TMP, filename)
              lg2 == IF Exists(f, file_path) THEN lg1
                     ELSE Append(lg1, Log("error", "file_not_found"))
              e == OpenRead(f, file_path)
              out == Send(url, scripted)
              reqs == << Request("POST", url, out) >>
          IN  IF e # ""
              THEN Except(f, << >>, << >>, lg2, e, "upload")
              ELSE IF RaisedBy(out) # ""
              THEN Except(f, reqs, << >>, lg2, RaisedBy(out), "upload")
              ELSE Ended(f, reqs, << >>, Append(lg2, Log("debug", "uploaded")), "",
                         [uploaded_file |-> filename,
                          message |-> [text |-> "Successfully uploaded",
                                       file |-> filename, issue |-> key],
                          issue_key |-> key,
                          project_key |-> PROJECT_KEY])

list_tmp_files(f) ==
    IF ~Exists(f, TMP)
    THEN Ended(f, << >>, << >>, << >>, "",
               [files |-> {}, message |-> [text |-> "tmp directory does not exist"]])
    ELSE IF Resolve(f, TMP).kind # "dir"
    THEN Ended(f, << >>, << >>, << Log("error", "list_tmp") >>, "", NoResult)
    ELSE Ended(f, << >>, << >>, << >>, "",
               [files |-> ListFiles(f),
                count |-> Cardinality(ListFiles(f)),
                message |-> [text |-> "Found files", n |-> Cardinality(ListFiles(f))]])

\* The transport main() selects from sys.argv.
SelectTransport(argv) ==
    IF Len(argv) > 1 /\ argv[2] = "stdio" THEN "stdio" ELSE "sse"

\* What the process serves once main() has started the server: the tools of
\* the FastMCP instance under mcp.run, the routes of the FastAPI app under
\* uvicorn.run.
Serving(t) ==
    IF t = "sse"
    THEN [tools |-> {}, routes |-> {"/"}]
    ELSE [tools |-> RegisteredTools, routes |-> {}]

----------------------------------------------------------------------------
(* The state machine *)

NoArgs == [issue_key |-> None, filename |-> None]

Argvs == {<<"jira3.py">>, <<"jira3.py", "stdio">>, <<"jira3.py", "sse">>}

IssueKeyArgs == {None, <<"P", "-", "1">>}

\* The scripts of the HTTP layer for one download: the issue request fails,
\* or it succeeds with a list of attachments, of which the content fetch
\* failAt fails with failKind (0: none fails).
DownloadScripts ==
    {[NoHttp EXCEPT !.first = o] : o \in Failures}
    \cup {[NoHttp EXCEPT !.attachments = al] : al \in AttachmentLists}
    \cup UNION {{[NoHttp EXCEPT !.attachments = al, !.failAt = k, !.failKind = fk] :
                   k \in 1..Len(al), fk \in Failures} : al \in AttachmentLists}

\* The environments the server is started in: each variable set or unset,
\* the two credentials being set or left out together.
Environments ==
    {e \in [JIRA_URL : JiraUrls, JIRA_USERNAME : Usernames,
            JIRA_API_TOKEN : ApiTokens, PROJECT_KEY : ProjectKeys,
            ISSUE_KEY : IssueKeys] :
        (e.JIRA_USERNAME = None) <=> (e.JIRA_API_TOKEN = None)}

Init ==
    /\ env \in Environments
    /\ transport = "unstarted"
    /\ served = [tools |-> {}, routes |-> {}]
    /\ fsys = [dirs |-> {<< >>, Cwd}, files |-> << >>]
    /\ op = "import"
    /\ args = NoArgs
    /\ http = NoHttp
    /\ requests = << >>
    /\ writes = << >>
    /\ logs = << >>
    /\ exc = ""
    /\ result = NoResult

\* The server waits for a request: main() has started it and the previous
\* request, if any, has been answered.
Ready == op \in {"main", "served"}

\* The state after the invocation `name` with arguments a under the HTTP
\* script h ended as e.
Invoke(name, a, h, e) ==
    /\ name \in served.tools
    /\ op' = name
    /\ args' = a
    /\ http' = h
    /\ fsys' = e.fsys
    /\ requests' = e.requests
    /\ writes' = e.writes
    /\ logs' = e.logs
    /\ exc' = e.exc
    /\ result' = e.result
    /\ UNCHANGED <<env, transport, served>>

Main ==
    \E argv \in Argvs :
        /\ transport = "unstarted"
        /\ transport' = SelectTransport(argv)
        /\ served' = Serving(SelectTransport(argv))
        /\ op' = "main"
        /\ logs' = << Log("info", "starting"), Log("info", "jira_url"),
                      Log("info", "username"), Log("info", "project_key") >>
        /\ args' = NoArgs
        /\ http' = NoHttp
        /\ requests' = << >>
        /\ writes' = << >>
        /\ exc' = ""
        /\ result' = NoResult
        /\ UNCHANGED <<env, fsys>>

\* GET / on the FastAPI app
Root ==
    /\ Ready
    /\ "/" \in served.routes
    /\ op' = "root"
    /\ result' = [message |-> "Jira MCP Server", status |-> "running"]
    /\ args' = NoArgs
    /\ http' = NoHttp
    /\ requests' = << >>
    /\ writes' = << >>
    /\ logs' = << >>
    /\ exc' = ""
    /\ UNCHANGED <<env, transport, served, fsys>>

\* The value of the handler goes back to the caller; nothing of the call
\* is kept.
Respond ==
    /\ op \in RegisteredTools \cup {"root"}
    /\ op' = "served"
    /\ args' = NoArgs
    /\ http' = NoHttp
    /\ requests' = << >>
    /\ writes' = << >>
    /\ logs' = << >>
    /\ exc' = ""
    /\ result' = NoResult
    /\ UNCHANGED <<env, transport, served, fsys>>

GetEpicNameFieldId ==
    /\ Ready
    /\ \E o \in Outcomes, fields \in FieldLists :
        Invoke("get_epic_name_field_id", NoArgs,
               [NoHttp EXCEPT !.first = o, !.payload = fields],
               get_epic_name_field_id(fsys, o, fields))

GetProjectInfo ==
    /\ Ready
    /\ \E o \in Outcomes, project \in Projects :
        Invoke("get_project_info", NoArgs,
               [NoHttp EXCEPT !.first = o, !.payload = project],
               get_project_info(fsys, o, project))

DownloadAttachments ==
    /\ Ready
    /\ \E issue_key \in IssueKeyArgs, h \in DownloadScripts :
           Invoke("download_attachments", [NoArgs EXCEPT !.issue_key = issue_key], h,
                  download_attachments(fsys, issue_key, h))

UploadAttachment ==
    /\ Ready
    /\ \E filename \in FileNames, issue_key \in IssueKeyArgs, o \in Outcomes :
        Invoke("upload_attachment",
               [issue_key |-> issue_key, filename |-> filename],
               [NoHttp EXCEPT !.first = o],
               upload_attachment(fsys, filename, issue_key, o))

ListTmpFiles ==
    /\ Ready
    /\ Invoke("list_tmp_files", NoArgs, NoHttp, list_tmp_files(fsys))

Next ==
    \/ Main
    \/ Root
    \/ GetEpicNameFieldId
    \/ GetProjectInfo
    \/ DownloadAttachments
    \/ UploadAttachment
    \/ ListTmpFiles
    \/ Respond

Spec == Init /\ [][Next]_vars

----------------------------------------------------------------------------
(* Properties *)

IsToolCall == op \in RegisteredTools

ErrorLogged == \E i \in 1..Len(logs) : logs[i].level = "error"

SomeRequestFailed == \E i \in 1..Len(requests) : requests[i].outcome # "ok"

\* The requests that left the process: requests refuses a URL without a
\* scheme before it sends anything.
Outbound == SelectSeq(requests, LAMBDA r : r.outcome # "invalid_url")

\* A file name without a directory part.
IsPlainName(name) == name # << >> /\ \A i \in 1..Len(name) : name[i] # "/"

\* The key the call in the frame works on.
FrameKey == EffectiveKey(args.issue_key)

\* The existence, file names and file contents of the scratch directory.
ScratchState(f) ==
    [exists |-> Append(Cwd, TMP) \in f.dirs,
     files |-> [p \in ScratchFiles(f) |-> f.files[p]]]

\* C1: an invocation one of whose HTTP requests failed (connection error,
\* non-success status, or a URL requests refuses) has logged an error,
\* returns None and lets no exception escape.
C1_FailedRequestIsLoggedAndEndsWithNone ==
    (IsToolCall /\ SomeRequestFailed) =>
        /\ exc = ""
        /\ result = NoResult
        /\ logs # << >>
        /\ logs[Len(logs)].level = "error"

\* A download whose second content fetch died of a connection error.
C1_Witness ==
    /\ op = "download_attachments"
    /\ Len(requests) = 3
    /\ requests[3].outcome = "conn_error"
    /\ result = NoResult

\* C2: download_attachments and upload_attachment called without an
\* issue_key while ISSUE_KEY is unset log an error and raise nothing.
C2_MissingIssueKeyIsLoggedNotRaised ==
    (/\ op \in {"download_attachments", "upload_attachment"}
     /\ args.issue_key = None
     /\ ISSUE_KEY = None) =>
        (exc = "" /\ ErrorLogged)

\* C3: upload_attachment of a name that is no file of the scratch directory
\* logs an error, returns None and raises nothing; with the file present and
\* the POST accepted it returns uploaded_file = filename.
C3_MissingFileIsLoggedNotRaised ==
    (op = "upload_attachment" /\ FrameKey # None) =>
        /\ ~IsFile(fsys, Join(TMP, args.filename)) =>
              (exc = "" /\ result = NoResult /\ ErrorLogged)
        /\ (IsFile(fsys, Join(TMP, args.filename)) /\ http.first = "ok"
              /\ HasScheme(Str(JIRA_URL))) =>
              ("uploaded_file" \in DOMAIN result /\ result.uploaded_file = args.filename)

\* C4: every file download_attachments creates or overwrites lies inside the
\* scratch directory.
C4_WritesStayInScratch ==
    \A i \in 1..Len(writes) : InScratch(writes[i])

\* C5: no step removes a file from the scratch directory, and a step of
\* anything but download_attachments leaves the directory's existence, file
\* names and file contents as they were.
C5_ScratchOnlyGrowsAndOnlyByDownload ==
    [][/\ ScratchFiles(fsys) \subseteq ScratchFiles(fsys')
       /\ op' # "download_attachments" => ScratchState(fsys') = ScratchState(fsys)]_vars

\* An upload that succeeded, with the uploaded file still in the directory.
C5_Witness ==
    /\ op = "upload_attachment"
    /\ "uploaded_file" \in DOMAIN result
    /\ ScratchFiles(fsys) # {}

\* C6: for an issue key outside the configured project no request is
\* issued and no file is written.
C6_ForeignIssueIsRejected ==
    (/\ op \in {"download_attachments", "upload_attachment"}
     /\ PROJECT_KEY # None
     /\ FrameKey # None
     /\ ~BelongsToProject(FrameKey)) =>
        (Outbound = << >> /\ writes = << >>)

\* C7: a download that returns lists 'tmp/<filename>' for each attachment in
\* order, reports their number, and leaves each listed path a file of the
\* scratch directory holding the bytes fetched for that attachment; with no
\* attachment it lists nothing and writes nothing.  Stated for the issues
\* whose attachments have plain file names, two of which may be the same.
C7_DownloadedFilesHoldTheirAttachments ==
    (/\ op = "download_attachments"
     /\ "downloaded_files" \in DOMAIN result
     /\ \A i \in 1..Len(http.attachments) : IsPlainName(http.attachments[i].filename)) =>
        LET atts == http.attachments
            listed == result.downloaded_files
        IN  /\ Len(listed) = Len(atts)
            /\ atts = << >> => writes = << >>
            /\ atts # << >> => result.message.n = Len(atts)
            /\ \A i \in 1..Len(atts) :
                  /\ i <= Len(listed)
                  /\ listed[i] = TMP \o <<"/">> \o atts[i].filename
                  /\ Resolve(fsys, listed[i]).kind = "file"
                  /\ InScratch(Resolve(fsys, listed[i]).path)
                  /\ fsys.files[Resolve(fsys, listed[i]).path] = Body(atts[i].content)

\* C8 as stated: every invocation issues one or two requests, all of them
\* to the configured Jira API.  Stated for the invocations that end without
\* an exception.
C8_OneOrTwoRequests ==
    (IsToolCall /\ exc = "") =>
        /\ Len(requests) \in {1, 2}
        /\ \A i \in 1..Len(requests) : requests[i].url.base = Str(JIRA_URL)

\* The i-th request of a download is the issue request or the content fetch
\* of attachment i - 1.
IsDownloadRequest(i) ==
    IF i = 1
    THEN requests[i].url = JiraEndpoint("/rest/api/3/issue/{}", FrameKey)
    ELSE /\ i - 1 <= Len(http.attachments)
         /\ requests[i].url = http.attachments[i - 1].content

\* C8 amended: get_epic_name_field_id and get_project_info make exactly one
\* call of the HTTP layer, list_tmp_files none, upload_attachment at most
\* one, download_attachments at most one issue request followed by at most
\* one content fetch per attachment, in the attachments' order; all but the
\* content fetches address a URL under JIRA_URL, a content fetch the
\* attachment's content URL.
C8_RequestsPerInvocation ==
    /\ op \in {"get_epic_name_field_id", "get_project_info"} =>
          (Len(requests) = 1 /\ requests[1].url.base = Str(JIRA_URL))
    /\ op = "list_tmp_files" => requests = << >>
    /\ op = "upload_attachment" =>
          /\ Len(requests) <= 1
          /\ \A i \in 1..Len(requests) :
                requests[i].url = JiraEndpoint("/rest/api/3/issue/{}/attachments", FrameKey)
    /\ op = "download_attachments" =>
          /\ Len(requests) <= 1 + Len(http.attachments)
          /\ \A i \in 1..Len(requests) : IsDownloadRequest(i)

\* A download that issued three requests, one of them away from JIRA_URL.
C8_Witness ==
    /\ op = "download_attachments"
    /\ Len(requests) = 3
    /\ \E i \in 2..3 : requests[i].url.base # Str(JIRA_URL)

\* C9: whichever transport main() selected, the five registered tools are
\* served, and under the network transport the root endpoint as well.
C9_ToolsServedUnderEveryTransport ==
    transport # "unstarted" =>
        /\ RegisteredTools \subseteq served.tools
        /\ transport = "sse" => "/" \in served.routes

\* C10: when the issue request succeeded and the content fetch of
\* attachment k failed, the scratch directory exists and holds the files of
\* attachments 1..k-1, no later attachment was fetched and the call returns
\* None.
C10_FailedDownloadKeepsEarlierFiles ==
    (/\ op = "download_attachments"
     /\ Len(requests) >= 2
     /\ requests[Len(requests)].outcome # "ok") =>
        LET k == Len(requests) - 1
        IN  /\ k = http.failAt
            /\ result = NoResult
            /\ Append(Cwd, TMP) \in fsys.dirs
            /\ \A i \in 1..(k - 1) :
                  LET r == Resolve(fsys, Join(TMP, http.attachments[i].filename))
                  IN  r.kind = "file" /\ InScratch(r.path)

====
